---- MODULE Spec2Model ----
(***************************************************************************)
(* Model of the log ingestion and classification pipeline of the          *)
(* Datakat AI server: the scheduler tick (app/scheduler.py), the cursor   *)
(* reader and writer (app/services/elastic.py), the matcher               *)
(* (app/services/anomaly.py), the clusterer (app/services/clustering.py)  *)
(* and the alerter with its configuration document                        *)
(* (app/services/alert_config_service.py, app/services/alert_api.py).     *)
(*                                                                         *)
(* Encodings.                                                              *)
(*  - A string is a sequence of one-character strings.                     *)
(*  - An event id "E<n>" is the integer n; the empty id "" is EmptyId;     *)
(*    Python's None is NoneId (event ids) or NoneTime (timestamps).        *)
(*  - Times are whole seconds.                                             *)
(***************************************************************************)
EXTENDS Integers, Sequences, FiniteSets, TLC

VARIABLES
    now,              \* wall clock, seconds
    pc,               \* position of the scheduler worker inside run()
    last_sort_value,  \* ElasticService.last_sort_value (in-memory cursor)
    last_save_time,   \* ElasticService.last_save_time
    checkpoint,       \* content of checkpoint.json
    esLogs,           \* backend log indices: sequence of documents
    esEvents,         \* backend templates index: set of documents
    event_templates,  \* AnomalyDetectionScheduler.event_templates (live catalog)
    logs,             \* run(): logs
    index_name,       \* run(): index_name
    unknown_logs,     \* run(): unknown_logs (positions in logs)
    new_templates,    \* run(): new_templates
    alertDoc,         \* backend document alert_config/latest
    alertLocal,       \* check_anomaly_threshold(): now, alert_config after the POST
    posts,            \* webhook POSTs issued so far (history)
    tick,             \* what the current tick has done so far (history)
    mIn,              \* matcher harness: the catalog drawn
    mOut,             \* matcher harness: the results of the two calls
    matched,          \* <<content, event id>> the Matcher has assigned (history)
    timer             \* the interval job of the background scheduler

vars == <<now, pc, last_sort_value, last_save_time, checkpoint, esLogs, esEvents,
          event_templates, logs, index_name, unknown_logs, new_templates,
          alertDoc, alertLocal, posts, tick, mIn, mOut, matched, timer>>

----------------------------------------------------------------------------
\* Python values

NoneId == -2
EmptyId == -1
NoneTime == -1

\* abnormal_event_ids: E34, E40, E42, E44, E28, E31
abnormal_event_ids == {34, 40, 42, 44, 28, 31}

\* Event.__init__
Event(event_id, template, is_abnormal) ==
    [event_id |-> event_id, template |-> template,
     is_abnormal |-> (is_abnormal \/ event_id \in abnormal_event_ids)]

----------------------------------------------------------------------------
\* Strings

SP == " "
WILD == <<"<", "*", ">">>

StartsWith(s, p) == Len(s) >= Len(p) /\ SubSeq(s, 1, Len(p)) = p

Drop(s, n) == SubSeq(s, n + 1, Len(s))

\* AnomalyService._get_pattern: every character a literal, each "<*>" the
\* group ([^ ]+).  A pattern is a sequence of items <<"lit", c>> or <<"any">>.
RECURSIVE _get_pattern(_)
_get_pattern(template) ==
    IF template = <<>> THEN <<>>
    ELSE IF StartsWith(template, WILD)
         THEN <<(<<"any">>)>> \o _get_pattern(Drop(template, 3))
         ELSE <<(<<"lit", Head(template)>>)>> \o _get_pattern(Tail(template))

\* re.Pattern.fullmatch: the pattern matches the string from start to end
RECURSIVE PatternMatch_full(_, _)
PatternMatch_full(pattern, s) ==
    IF pattern = <<>> THEN s = <<>>
    ELSE IF Head(pattern) = <<"any">>
         THEN \E k \in 1..Len(s) :
                 /\ \A i \in 1..k : s[i] # SP
                 /\ PatternMatch_full(Tail(pattern), Drop(s, k))
         ELSE /\ s # <<>>
              /\ Head(s) = Head(pattern)[2]
              /\ PatternMatch_full(Tail(pattern), Tail(s))

\* re.Pattern.match: the pattern matches at the start of the string (a prefix).
RECURSIVE PatternMatch(_, _)
PatternMatch(pattern, s) ==
    IF pattern = <<>> THEN TRUE
    ELSE IF Head(pattern) = <<"any">>
         THEN \E k \in 1..Len(s) :
                 /\ \A i \in 1..k : s[i] # SP
                 /\ PatternMatch(Tail(pattern), Drop(s, k))
         ELSE /\ s # <<>>
              /\ Head(s) = Head(pattern)[2]
              /\ PatternMatch(Tail(pattern), Tail(s))

----------------------------------------------------------------------------
\* Matcher (app/services/anomaly.py)

\* LogEntry as built by get_logs from a hit
LogEntry(id, content, event_id, is_anomaly) ==
    [id |-> id, content |-> content, event_id |-> event_id,
     is_anomaly |-> is_anomaly, detection_timestamp |-> NoneTime]

\* An inner loop without the break: the last matching template wins
FirstMatch_last(log_content, templates, i) ==
    LET matching == {k \in i..Len(templates) :
                        PatternMatch(_get_pattern(templates[k].template), log_content)}
    IN IF matching = {} THEN 0
       ELSE CHOOSE k \in matching : \A m \in matching : m <= k

\* check_anomaly, inner loop: the position of the first template, from position
\* i on, whose pattern matches the content; 0 when the loop ends without a break.
RECURSIVE FirstMatch(_, _, _)
FirstMatch(log_content, templates, i) ==
    IF i > Len(templates) THEN 0
    ELSE IF PatternMatch(_get_pattern(templates[i].template), log_content) THEN i
    ELSE FirstMatch(log_content, templates, i + 1)

\* A Matcher for which a matched log is never an anomaly
check_log_normal(log, templates) ==
    LET matching == {k \in DOMAIN templates :
                        PatternMatch(_get_pattern(templates[k].template), log.content)}
        i == IF matching = {} THEN 0 ELSE CHOOSE k \in matching : \A m \in matching : k <= m
    IN IF i # 0
       THEN [log |-> [log EXCEPT !.event_id = templates[i].event_id, !.is_anomaly = FALSE],
             matched |-> TRUE]
       ELSE [log |-> [log EXCEPT !.is_anomaly = TRUE], matched |-> FALSE]

\* check_anomaly, body of the outer loop for one log: the log as mutated, and
\* the flag `matched`
check_log(log, templates) ==
    LET i == FirstMatch(log.content, templates, 1) IN
    IF i # 0
    THEN [log |-> [log EXCEPT !.event_id = templates[i].event_id,
                              !.is_anomaly = templates[i].is_abnormal],
          matched |-> TRUE]
    ELSE [log |-> [log EXCEPT !.is_anomaly = TRUE], matched |-> FALSE]

\* check_anomaly: the logs as mutated, and the unknown logs (their positions
\* in logs, in order: unknown_logs holds the very objects of logs)
check_anomaly(ls, templates) ==
    LET r == [i \in DOMAIN ls |-> check_log(ls[i], templates)] IN
    [logs    |-> [i \in DOMAIN ls |-> r[i].log],
     unknown |-> SelectSeq([i \in DOMAIN ls |-> i], LAMBDA i : ~r[i].matched)]

----------------------------------------------------------------------------
\* Bounds of the model

MaxTicks == 3        \* timer ticks of the pipeline
MaxLateTicks == 8    \* timer ticks, on schedule or late, of the cursor reader
MaxLogs == 3         \* documents the upstream ingestion creates
MaxPage == 3         \* page size of the search (stands for "size": 5000)
MaxPosts == 3        \* webhook POSTs recorded in the history
MaxTimerTicks == 4   \* firings of the interval trigger, with ticks that take time

\* Program constants
TickSeconds == 10    \* scheduler.add_job(..., "interval", seconds=10)
SaveSeconds == 30    \* now - self.last_save_time > 30
HttpOk == 200        \* response.status_code == 200
DefaultThreshold == 500    \* ANOMALY_ALERT_THRESHOLD
DefaultCooldown == 3600    \* ANOMALY_ALERT_COOLDOWN_SECONDS

\* The instants at which the timer can fire, the last one being tick number n
TimesTo(n) == {k * TickSeconds : k \in 0..n}

Times == TimesTo(MaxLateTicks)

----------------------------------------------------------------------------
\* Cursor reader (app/services/elastic.py)

\* checkpoint.json: absent, or {"last_sort_value": v}
Absent == [exists |-> FALSE, last_sort_value |-> 0]

\* CheckpointManager.load: the value of the file, None (NoneTime) without file
CheckpointLoad(file) == IF ~file.exists THEN NoneTime ELSE file.last_sort_value

\* CheckpointManager.save: the file written, or left as it was when open() raises
\* (the error is printed and swallowed)
CheckpointSave(file, last, ok) ==
    IF ok THEN [exists |-> TRUE, last_sort_value |-> last] ELSE file

\* ElasticService.__init__: self.checkpoint_manager.load() or 0
InitialCursor(file) ==
    LET v == CheckpointLoad(file) IN IF v = NoneTime \/ v = 0 THEN 0 ELSE v

\* The backend's answer to the search of get_logs: ascending by sort key, the
\* documents strictly after search_after (all of them without search_after), one page
SearchHits(docs, cursor) ==
    LET after == SelectSeq(docs, LAMBDA d : IF cursor # 0 THEN d.sort > cursor ELSE TRUE)
    IN SubSeq(after, 1, IF Len(after) < MaxPage THEN Len(after) ELSE MaxPage)

\* A reader that forgets the cursor when the page is empty
AdvanceCursor_reset(hits, cursor, saved_at, file, t, save_ok) ==
    IF hits # <<>>
    THEN <<hits[Len(hits)].sort, saved_at, file>>
    ELSE <<0, saved_at, file>>

\* A reader that, when the write is due, stores the sort key of the last hit in
\* the checkpoint file without moving the cursor in memory
AdvanceCursor_unmoved(hits, cursor, saved_at, file, t, save_ok) ==
    IF hits # <<>> /\ hits[Len(hits)].sort # cursor
    THEN IF t - saved_at > SaveSeconds
         THEN <<cursor, t, CheckpointSave(file, hits[Len(hits)].sort, save_ok)>>
         ELSE <<hits[Len(hits)].sort, saved_at, file>>
    ELSE <<cursor, saved_at, file>>

\* get_logs, lines 85-93: the cursor moves to the sort key of the last hit; the
\* checkpoint is written when more than 30 s have passed since the last write
\* (last_save_time moves whether or not the write worked).
\* Result: <<last_sort_value, last_save_time, checkpoint>>
AdvanceCursor(hits, cursor, saved_at, file, t, save_ok) ==
    IF hits # <<>> /\ hits[Len(hits)].sort # cursor
    THEN IF t - saved_at > SaveSeconds
         THEN <<hits[Len(hits)].sort, t,
                CheckpointSave(file, hits[Len(hits)].sort, save_ok)>>
         ELSE <<hits[Len(hits)].sort, saved_at, file>>
    ELSE <<cursor, saved_at, file>>

\* History of the current tick: the cursor it sent, whether its search failed,
\* the checkpoint file it found, the backend writes it made.
NoTick == [sent |-> 0, failed |-> FALSE, file0 |-> Absent, writes |-> {}]

StartTick(failed) ==
    [sent |-> last_sort_value, failed |-> failed, file0 |-> checkpoint, writes |-> {}]

\* A run() without the outer try: the exception leaves the job
Return_escapes ==
    /\ pc' = "raised"
    /\ logs' = <<>>
    /\ index_name' = <<>>
    /\ unknown_logs' = <<>>
    /\ new_templates' = <<>>

\* run() returns, normally or from its except clause: its locals are gone
Return ==
    /\ pc' = "idle"
    /\ logs' = <<>>
    /\ index_name' = <<>>
    /\ unknown_logs' = <<>>
    /\ new_templates' = <<>>

\* get_logs, lines 62-96: the pair (logs, index_names) built from the hits
get_logs_result(hits) ==
    <<[i \in DOMAIN hits |-> LogEntry(hits[i].id, hits[i].content,
                                      hits[i].event_id, hits[i].is_anomaly)],
      [i \in DOMAIN hits |-> hits[i].index]>>

\* A get_logs that answers an error with an empty batch and no index names
get_logs_error_pair == <<<<>>, <<>>>>

\* get_logs, lines 98-102: except Exception: ... return []
get_logs_error == <<>>

\* run(), line 122: logs, index_name = ...  unpacks a sequence of two
Unpacks(result) == Len(result) = 2

\* run(), line 122: get_logs.  A failed search makes get_logs return [], which
\* run() cannot unpack into two names: the ValueError ends the tick in run()'s
\* except clause.
ReadAfter(delays, instants) ==
    /\ pc = "idle"
    /\ posts.on => Len(posts.log) < MaxPosts
    /\ \E t \in {now + d : d \in delays} \cap instants :
        /\ now' = t
        /\ \E search_ok \in BOOLEAN, save_ok \in BOOLEAN :
            LET hits == SearchHits(esLogs, last_sort_value)
                c == IF search_ok
                     THEN AdvanceCursor(hits, last_sort_value, last_save_time,
                                        checkpoint, t, save_ok)
                     ELSE <<last_sort_value, last_save_time, checkpoint>>
                result == IF search_ok THEN get_logs_result(hits) ELSE get_logs_error
            IN /\ last_sort_value' = c[1]
               /\ last_save_time' = c[2]
               /\ checkpoint' = c[3]
               /\ tick' = StartTick(~search_ok)
               /\ IF Unpacks(result)
                  THEN /\ logs' = result[1]
                       /\ index_name' = result[2]
                       /\ pc' = "stamp"
                  ELSE /\ pc' = "idle"
                       /\ UNCHANGED <<logs, index_name>>
    /\ UNCHANGED <<esLogs, esEvents, event_templates, unknown_logs, new_templates,
                   alertDoc, alertLocal, posts, mIn, mOut, matched>>

\* The timer fires on schedule
GetLogs ==
    /\ ReadAfter({TickSeconds}, TimesTo(MaxTicks))
    /\ UNCHANGED timer

\* The timer fires after the process was held up for a while
GetLogsLate ==
    /\ ReadAfter({TickSeconds, SaveSeconds + TickSeconds}, TimesTo(MaxLateTicks))
    /\ UNCHANGED timer

\* run(), lines 124-126: detection_timestamp of every log of the batch
Stamp ==
    /\ pc = "stamp"
    /\ logs' = [i \in DOMAIN logs |-> [logs[i] EXCEPT !.detection_timestamp = now]]
    /\ pc' = "match"
    /\ UNCHANGED <<now, last_sort_value, last_save_time, checkpoint, esLogs, esEvents,
                   event_templates, index_name, unknown_logs, new_templates,
                   alertDoc, alertLocal, posts, tick, mIn, mOut, matched, timer>>

\* A run() that classifies the batch before it stamps it
Matcher_unstamped ==
    /\ pc = "stamp"
    /\ LET r == check_anomaly(logs, event_templates) IN
        /\ logs' = r.logs
        /\ unknown_logs' = r.unknown
        /\ matched' = matched \cup
                        {<<r.logs[i].content, r.logs[i].event_id>> :
                            i \in DOMAIN logs \ {r.unknown[u] : u \in DOMAIN r.unknown}}
    /\ pc' = "cluster"
    /\ UNCHANGED <<now, last_sort_value, last_save_time, checkpoint, esLogs, esEvents,
                   event_templates, index_name, new_templates,
                   alertDoc, alertLocal, posts, tick, mIn, mOut, timer>>

\* run(), line 128
Matcher ==
    /\ pc = "match"
    /\ LET r == check_anomaly(logs, event_templates) IN
        /\ logs' = r.logs
        /\ unknown_logs' = r.unknown
        /\ matched' = matched \cup
                        {<<r.logs[i].content, r.logs[i].event_id>> :
                            i \in DOMAIN logs \ {r.unknown[u] : u \in DOMAIN r.unknown}}
    /\ pc' = "cluster"
    /\ UNCHANGED <<now, last_sort_value, last_save_time, checkpoint, esLogs, esEvents,
                   event_templates, index_name, new_templates,
                   alertDoc, alertLocal, posts, tick, mIn, mOut, timer>>

----------------------------------------------------------------------------
\* Clusterer (app/services/clustering.py, app/services/preprocess.py)

IsBlank(s) == \A i \in DOMAIN s : s[i] = SP

\* str.split(): the maximal runs of non-space characters
RECURSIVE SplitFrom(_, _)
SplitFrom(s, run) ==
    IF s = <<>> THEN (IF run = <<>> THEN <<>> ELSE <<run>>)
    ELSE IF Head(s) = SP
         THEN (IF run = <<>> THEN <<>> ELSE <<run>>) \o SplitFrom(Tail(s), <<>>)
         ELSE SplitFrom(Tail(s), Append(run, Head(s)))

Split(s) == SplitFrom(s, <<>>)

\* ' '.join(tokens)
RECURSIVE Join(_)
Join(tokens) ==
    IF tokens = <<>> THEN <<>>
    ELSE IF Len(tokens) = 1 THEN tokens[1]
    ELSE tokens[1] \o <<SP>> \o Join(Tail(tokens))

\* str.strip()
RECURSIVE Strip(_)
Strip(s) ==
    IF s = <<>> THEN s
    ELSE IF Head(s) = SP THEN Strip(Tail(s))
    ELSE IF s[Len(s)] = SP THEN Strip(SubSeq(s, 1, Len(s) - 1))
    ELSE s

SeqMax(ns) == IF ns = {} THEN 0 ELSE CHOOSE m \in ns : \A n \in ns : n <= m

\* _generate_template_from_cluster, lines 47-62: the token of a position when
\* the members that have the position share it, "<*>" otherwise
TemplateTokens(cluster_logs) ==
    LET token_arrays == [i \in DOMAIN cluster_logs |-> Split(cluster_logs[i])]
        max_length == SeqMax({Len(token_arrays[i]) : i \in DOMAIN token_arrays})
        unique_tokens(p) == {token_arrays[i][p] :
                                i \in {j \in DOMAIN token_arrays : p <= Len(token_arrays[j])}}
    IN [p \in 1..max_length |->
          IF Cardinality(unique_tokens(p)) = 1
          THEN CHOOSE t \in unique_tokens(p) : TRUE
          ELSE WILD]

\* The positions joined as they are, without the loop of lines 64-73
MergeWildcards_none(tokens, previous_token) == tokens

\* _generate_template_from_cluster, lines 64-73: consecutive "<*>" merged
RECURSIVE MergeWildcards(_, _)
MergeWildcards(tokens, previous_token) ==
    IF tokens = <<>> THEN <<>>
    ELSE IF Head(tokens) = WILD /\ previous_token = WILD
         THEN MergeWildcards(Tail(tokens), previous_token)
         ELSE <<Head(tokens)>> \o MergeWildcards(Tail(tokens), Head(tokens))

_generate_template_from_cluster(cluster_logs) ==
    IF cluster_logs = <<>> THEN <<>>
    ELSE IF Len(cluster_logs) = 1 THEN cluster_logs[1]
    ELSE Join(MergeWildcards(TemplateTokens(cluster_logs), <<>>))

\* _is_template_too_generic with threshold 0.8: wildcard_count / len >= 0.8
_is_template_too_generic(template) ==
    LET tokens == Split(Strip(template))
        wildcard_count == Cardinality({i \in DOMAIN tokens : tokens[i] = WILD})
    IN IF tokens = <<>> THEN TRUE
       ELSE 10 * wildcard_count >= 8 * Len(tokens)

\* PreprocessService.normalize_template: every "<*>" becomes "*", then strip()
RECURSIVE StarWildcards(_)
StarWildcards(t) ==
    IF t = <<>> THEN <<>>
    ELSE IF StartsWith(t, WILD) THEN <<"*">> \o StarWildcards(Drop(t, 3))
    ELSE <<Head(t)>> \o StarWildcards(Tail(t))

normalize_template(t) == Strip(StarWildcards(t))

----------------------------------------------------------------------------
\* The vectorizers.  TfidfVectorizer, DBSCAN and cosine_similarity are library
\* code: the model computes the n-gram features they work on, decides the two
\* comparisons (cosine distance <= eps, cosine similarity >= threshold) where
\* the features decide them (equal feature bags: identical vectors; no common
\* feature: orthogonal vectors; no feature: the zero vector) and leaves the
\* other cases open, as a choice of the action.  Strings are lowercase; of the
\* patterns of normalize_log only the integer pattern can match them.

DIGITS == {"0", "1", "2", "3", "4", "5", "6", "7", "8", "9"}
NUM == <<"<", "n", "u", "m", ">">>

\* PreprocessService.normalize_log: lower(), then the patterns in order
RECURSIVE normalize_log(_)
normalize_log(s) ==
    IF s = <<>> THEN <<>>
    ELSE IF Head(s) \in DIGITS
         THEN IF Len(s) > 1 /\ s[2] \in DIGITS
              THEN normalize_log(Tail(s))            \* inside a run of digits
              ELSE NUM \o normalize_log(Tail(s))     \* the run ends here
         ELSE <<Head(s)>> \o normalize_log(Tail(s))

\* Characters that are not \w
NONWORD == {SP, "<", "*", ">"}

\* token_pattern (?u)\b\w\w+\b: the maximal runs of two or more word characters
RECURSIVE TokensFrom(_, _)
TokensFrom(s, run) ==
    IF s = <<>> THEN (IF Len(run) >= 2 THEN <<run>> ELSE <<>>)
    ELSE IF Head(s) \in NONWORD
         THEN (IF Len(run) >= 2 THEN <<run>> ELSE <<>>) \o TokensFrom(Tail(s), <<>>)
         ELSE TokensFrom(Tail(s), Append(run, Head(s)))

Tokenize(s) == TokensFrom(s, <<>>)

\* stop_words="english": the words of the list that the strings of the model use
STOPWORDS == {<<"o", "n">>, <<"i", "s">>, <<"t", "o">>, <<"u", "p">>}

\* The n-grams (1..nmax) of a document: its tokens without the stop words, then
\* every run of 1..nmax consecutive tokens.  A set of <<position, n-gram>>.
Grams(s, nmax) ==
    LET tokens == SelectSeq(Tokenize(s), LAMBDA w : w \notin STOPWORDS)
    IN {<<q[1], SubSeq(tokens, q[1], q[1] + q[2] - 1)>> :
           q \in {r \in (1..Len(tokens)) \X (1..nmax) : r[1] + r[2] - 1 <= Len(tokens)}}

\* The bag of the terms of `vocabulary` in a document: term -> count
TermBag(s, nmax, vocabulary) ==
    LET g == Grams(s, nmax) IN
    [t \in {x[2] : x \in g} \cap vocabulary |-> Cardinality({x \in g : x[2] = t})]

Terms(s, nmax) == {x[2] : x \in Grams(s, nmax)}

\* self.tfidf_vectorizer = TfidfVectorizer(ngram_range=(1, 3), max_df=0.9, min_df=1):
\* the terms kept are those in at most 0.9 * n_doc documents
LogVocabulary(docs) ==
    LET terms == [i \in DOMAIN docs |-> Terms(docs[i], 3)]
        df(t) == Cardinality({i \in DOMAIN docs : t \in terms[i]})
    IN {t \in UNION {terms[i] : i \in DOMAIN docs} : 10 * df(t) <= 9 * Len(docs)}

\* fit_transform raises ValueError: empty vocabulary, max_df * n_doc < min_df,
\* or no term left after pruning
LogVectorizerRaises(docs) ==
    \/ UNION {Terms(docs[i], 3) : i \in DOMAIN docs} = {}
    \/ 10 * 1 > 9 * Len(docs)
    \/ LogVocabulary(docs) = {}

\* self.template_vectorizer = TfidfVectorizer(ngram_range=(1, 2)): no pruning
TemplateVocabulary(docs) == UNION {Terms(docs[i], 2) : i \in DOMAIN docs}

TemplateVectorizerRaises(docs) == TemplateVocabulary(docs) = {}

\* For two rows of a tf-idf matrix: "same" (identical non-zero vectors),
\* "orthogonal" (no common term, or a zero vector), or "open"
Compare(bag1, bag2) ==
    IF DOMAIN bag1 \cap DOMAIN bag2 = {} THEN "orthogonal"
    ELSE IF bag1 = bag2 THEN "same"
    ELSE "open"

\* The pairs {i, j} of rows a comparison must hold for, and may hold for
Pairs(bags, verdict) ==
    {{p[1], p[2]} : p \in {q \in (DOMAIN bags) \X (DOMAIN bags) :
                              q[1] < q[2] /\ Compare(bags[q[1]], bags[q[2]]) = verdict}}

Forced(bags) == Pairs(bags, "same")

Open(bags) == Pairs(bags, "open")

\* Every outcome of the comparison the library can produce: a set of pairs
Outcomes(bags) == {Forced(bags) \cup o : o \in SUBSET Open(bags)}

\* Ascending sequence of a set of numbers
RECURSIVE Ascending(_)
Ascending(S) ==
    IF S = {} THEN <<>>
    ELSE LET m == CHOOSE m \in S : \A x \in S : m <= x
         IN <<m>> \o Ascending(S \ {m})

Range(f) == {f[i] : i \in DOMAIN f}

\* DBSCAN(eps=0.5, min_samples=2, metric="cosine"): a row with a neighbour is a
\* core row, so the clusters are the connected groups of two or more rows.
\* nb is the set of pairs of rows at cosine distance <= eps.
RECURSIVE Connected(_, _)
Connected(S, nb) ==
    LET S2 == S \cup {y \in UNION nb : \E x \in S : {x, y} \in nb}
    IN IF S2 = S THEN S ELSE Connected(S2, nb)

\* lines 179-185: cluster_indices, in the order of the labels (the order of the
\* first row of each cluster), outliers left out; each cluster ascending
RECURSIVE ClusterSeq(_)
ClusterSeq(groups) ==
    IF groups = {} THEN <<>>
    ELSE LET first == CHOOSE g \in groups :
                         \A h \in groups : Ascending(g)[1] <= Ascending(h)[1]
         IN <<Ascending(first)>> \o ClusterSeq(groups \ {first})

cluster_indices(n_rows, nb) ==
    ClusterSeq({g \in {Connected({r}, nb) : r \in 1..n_rows} : Cardinality(g) >= 2})

\* sorted(group, key=lambda t: len(t.template)): stable
RECURSIVE SortByLength(_, _)
SortByLength(group, templates) ==
    IF group = <<>> THEN <<>>
    ELSE LET k == CHOOSE k \in DOMAIN group :
                    /\ \A j \in DOMAIN group :
                          Len(templates[group[k]].ev.template) <= Len(templates[group[j]].ev.template)
                    /\ \A j \in 1..(k - 1) :
                          Len(templates[group[j]].ev.template) > Len(templates[group[k]].ev.template)
         IN <<group[k]>> \o
            SortByLength(SubSeq(group, 1, k - 1) \o SubSeq(group, k + 1, Len(group)),
                         templates)

\* The shortest template of the group as the representative
Chosen_first(sorted_group) == sorted_group[1]

\* chosen = sorted_group[len(group)//2]
Chosen(sorted_group) == sorted_group[(Len(sorted_group) \div 2) + 1]

\* _merge_similar_templates, lines 105-123, from row i on.  sim is the set of
\* pairs of rows with cosine similarity >= threshold.  The positions (in
\* templates) of the chosen templates, in order.
RECURSIVE MergeFrom(_, _, _, _)
MergeFrom(i, merged, templates, sim) ==
    IF i > Len(templates) THEN <<>>
    ELSE IF i \in merged THEN MergeFrom(i + 1, merged, templates, sim)
    ELSE LET similar == {j \in (i + 1)..Len(templates) : {i, j} \in sim /\ j \notin merged}
             group == <<i>> \o Ascending(similar)
         IN <<Chosen(SortByLength(group, templates))>> \o
            MergeFrom(i + 1, merged \cup similar, templates, sim)

\* lines 105-118: the groups (positions in templates) the loop forms, in order
RECURSIVE MergeGroups(_, _, _, _)
MergeGroups(i, merged, templates, sim) ==
    IF i > Len(templates) THEN <<>>
    ELSE IF i \in merged THEN MergeGroups(i + 1, merged, templates, sim)
    ELSE LET similar == {j \in (i + 1)..Len(templates) : {i, j} \in sim /\ j \notin merged}
         IN <<(<<i>> \o Ascending(similar))>> \o
            MergeGroups(i + 1, merged \cup similar, templates, sim)

_merge_similar_templates(templates, sim) ==
    IF templates = <<>> THEN <<>> ELSE MergeFrom(1, {}, templates, sim)

RECURSIVE Flatten(_)
Flatten(seqs) == IF seqs = <<>> THEN <<>> ELSE Head(seqs) \o Flatten(Tail(seqs))

Substring(a, b) == \E i \in 1..(Len(b) - Len(a) + 1) : SubSeq(b, i, i + Len(a) - 1) = a

\* lines 131-135: the contents of the unknown logs, and the normalized ones
\* that are not blank
UnknownContents(ls, unknown) == [u \in DOMAIN unknown |-> ls[unknown[u]].content]

ValidContents(ls, unknown) ==
    SelectSeq([u \in DOMAIN unknown |-> normalize_log(ls[unknown[u]].content)],
              LAMBDA c : ~IsBlank(c))

\* The return of lines 128-129 alone
ReturnsEarly_empty(ls, unknown) == unknown = <<>>

\* lines 128-129, 136-145: the three returns of event_templates as it is
ReturnsEarly(ls, unknown) ==
    \/ unknown = <<>>
    \/ ValidContents(ls, unknown) = <<>>
    \/ LogVectorizerRaises(ValidContents(ls, unknown))

\* The rows of X = self.tfidf_vectorizer.fit_transform(valid_contents)
LogBags(ls, unknown) ==
    LET v == ValidContents(ls, unknown)
        vocabulary == LogVocabulary(v)
    IN [r \in DOMAIN v |-> TermBag(v[r], 3, vocabulary)]

\* lines 147-177.  Row i of X is looked up as unknown_logs[i].
\* raw_templates; log_to_raw_template as <<position in unknown_logs, template>>
\* in insertion order; generic_logs as positions in unknown_logs.
Candidates(ls, unknown, nb) ==
    LET clusters == cluster_indices(Len(ValidContents(ls, unknown)), nb)
        contents == UnknownContents(ls, unknown)
        template(c) == _generate_template_from_cluster(
                           [k \in DOMAIN clusters[c] |-> contents[clusters[c][k]]])
        numbers == [c \in DOMAIN clusters |-> c]
        kept == SelectSeq(numbers, LAMBDA c : ~_is_template_too_generic(template(c)))
        generic == SelectSeq(numbers, LAMBDA c : _is_template_too_generic(template(c)))
    IN [raw_templates |-> [k \in DOMAIN kept |-> template(kept[k])],
        log_to_raw_template |->
            Flatten([k \in DOMAIN kept |->
                       [j \in DOMAIN clusters[kept[k]] |->
                          <<clusters[kept[k]][j], template(kept[k])>>]]),
        generic_logs |-> Flatten([k \in DOMAIN generic |-> clusters[generic[k]]])]

\* line 180: event_templates + [Event("", t, is_abnormal=True) for t in raw_templates].
\* origin is the position in event_templates of an object of the catalog, 0 for
\* a new object.
RawTemplateObjs(catalog, raw_templates) ==
    [p \in DOMAIN catalog |-> [origin |-> p, ev |-> catalog[p]]] \o
    [k \in DOMAIN raw_templates |->
        [origin |-> 0, ev |-> Event(EmptyId, raw_templates[k], TRUE)]]

\* lines 181-189: the first object of each template string
RECURSIVE UniqueEvents(_, _)
UniqueEvents(objs, unique_templates) ==
    IF objs = <<>> THEN <<>>
    ELSE IF Head(objs).ev.template \in unique_templates
         THEN UniqueEvents(Tail(objs), unique_templates)
         ELSE <<Head(objs)>> \o
              UniqueEvents(Tail(objs), unique_templates \cup {Head(objs).ev.template})

UniqueObjs(catalog, raw_templates) ==
    UniqueEvents(RawTemplateObjs(catalog, raw_templates), {})

\* _merge_similar_templates, line 92-95: the rows of the template matrix
TemplateDocs(unique) == [i \in DOMAIN unique |-> normalize_template(unique[i].ev.template)]

TemplateBags(unique) ==
    LET docs == TemplateDocs(unique)
        vocabulary == TemplateVocabulary(docs)
    IN [i \in DOMAIN unique |-> TermBag(docs[i], 2, vocabulary)]

\* lines 192-201: final_templates, each merged template given the id E<idx+1>
FinalTemplates(unique, merged) ==
    [idx \in DOMAIN merged |-> [unique[merged[idx]].ev EXCEPT !.event_id = idx]]

\* line 198 assigns to the object itself: a chosen template that is an object of
\* the catalog changes its event_id inside the catalog
Renumbered(catalog, unique, merged) ==
    [p \in DOMAIN catalog |->
        IF \E idx \in DOMAIN merged : unique[merged[idx]].origin = p
        THEN [catalog[p] EXCEPT !.event_id =
                 CHOOSE idx \in DOMAIN merged : unique[merged[idx]].origin = p]
        ELSE catalog[p]]

\* normalized_to_event[norm_tpl]: the last final template with that normalized
\* string; 0 when the key is missing
NormalizedToEvent(final, norm) ==
    SeqMax({idx \in DOMAIN final : normalize_template(final[idx].template) = norm})

\* The keys of normalized_to_event in insertion order
RECURSIVE DictKeys(_, _)
DictKeys(final, seen) ==
    IF final = <<>> THEN <<>>
    ELSE LET k == normalize_template(Head(final).template) IN
         IF k \in seen THEN DictKeys(Tail(final), seen)
         ELSE <<k>> \o DictKeys(Tail(final), seen \cup {k})

\* lines 213-225, fuzz.partial_ratio (library code): the event id of the best
\* scorer when its score is >= 70, NoneId when there is none.  A key that
\* contains norm, or that norm contains, scores 100 and the first such key is
\* the best; otherwise any key may be the best, or none.
FuzzyOutcomes(final, norm) ==
    LET keys == DictKeys(final, {})
        full == {k \in DOMAIN keys : Substring(norm, keys[k]) \/ Substring(keys[k], norm)}
    IN IF keys = <<>> THEN {NoneId}
       ELSE IF full # {}
            THEN {NormalizedToEvent(final, keys[Ascending(full)[1]])}
            ELSE {NoneId} \cup {NormalizedToEvent(final, keys[k]) : k \in DOMAIN keys}

\* The mapping of lines 203-225 alone, without the loop of lines 227-230
AssignedId_kept(u, cand, final, fz) ==
    IF \E e \in Range(cand.log_to_raw_template) : e[1] = u
    THEN LET e == CHOOSE e \in Range(cand.log_to_raw_template) : e[1] = u
             norm == normalize_template(e[2])
         IN IF NormalizedToEvent(final, norm) # 0
            THEN NormalizedToEvent(final, norm)
            ELSE fz[norm]
    ELSE NoneId

\* lines 203-230: the event id the Clusterer gives the log at position u of
\* unknown_logs (NoneId: none given).  fz maps a normalized raw template to the
\* outcome of the fuzzy search.
AssignedId(u, cand, final, fz) ==
    IF u \in Range(cand.generic_logs) THEN 0
    ELSE IF \E e \in Range(cand.log_to_raw_template) : e[1] = u
    THEN LET e == CHOOSE e \in Range(cand.log_to_raw_template) : e[1] = u
             norm == normalize_template(e[2])
         IN IF NormalizedToEvent(final, norm) # 0
            THEN NormalizedToEvent(final, norm)
            ELSE fz[norm]
    ELSE NoneId

\* cluster_and_generate_templates past the early returns, given the outcomes of
\* the library calls: nb (DBSCAN neighbours), sim (similar templates), fz (fuzzy
\* search).  Result: the list returned, the catalog and the logs as mutated.
cluster_and_generate_templates(ls, unknown, catalog, nb, sim, fz) ==
    LET cand == Candidates(ls, unknown, nb)
        unique == UniqueObjs(catalog, cand.raw_templates)
        merged == _merge_similar_templates(unique, sim)
        final == FinalTemplates(unique, merged)
    IN [new_templates |-> final,
        event_templates |-> Renumbered(catalog, unique, merged),
        logs |-> [i \in DOMAIN ls |->
                    IF \E u \in DOMAIN unknown :
                          unknown[u] = i /\ AssignedId(u, cand, final, fz) # NoneId
                    THEN [ls[i] EXCEPT
                            !.event_id = AssignedId(CHOOSE u \in DOMAIN unknown : unknown[u] = i,
                                                    cand, final, fz),
                            !.is_anomaly = TRUE]
                    ELSE ls[i]]]

----------------------------------------------------------------------------
\* The scheduler tick, continued (app/scheduler.py)

\* run(), line 129.  An exception of the template vectorizer (empty vocabulary;
\* the vectorizer is not called for an empty list of templates) is not caught
\* in the Clusterer: it ends the tick in run()'s except clause.
Clusterer ==
    /\ pc = "cluster"
    /\ IF ReturnsEarly(logs, unknown_logs)
       THEN /\ new_templates' = event_templates
            /\ pc' = "save_logs"
            /\ UNCHANGED <<event_templates, logs, index_name, unknown_logs>>
       ELSE \E nb \in Outcomes(LogBags(logs, unknown_logs)) :
              LET cand == Candidates(logs, unknown_logs, nb)
                  unique == UniqueObjs(event_templates, cand.raw_templates)
              IN IF unique # <<>> /\ TemplateVectorizerRaises(TemplateDocs(unique))
                 THEN /\ Return
                      /\ UNCHANGED event_templates
                 ELSE \E sim \in Outcomes(TemplateBags(unique)) :
                        LET merged == _merge_similar_templates(unique, sim)
                            final == FinalTemplates(unique, merged)
                            norms == {normalize_template(t) : t \in Range(cand.raw_templates)}
                        IN \E fz \in {f \in [norms -> {NoneId} \cup DOMAIN final] :
                                        \A n \in norms : f[n] \in FuzzyOutcomes(final, n)} :
                             LET r == cluster_and_generate_templates(
                                          logs, unknown_logs, event_templates, nb, sim, fz)
                             IN /\ new_templates' = r.new_templates
                                /\ event_templates' = r.event_templates
                                /\ logs' = r.logs
                                /\ pc' = "save_logs"
                                /\ UNCHANGED <<index_name, unknown_logs>>
    /\ UNCHANGED <<now, last_sort_value, last_save_time, checkpoint, esLogs, esEvents,
                   alertDoc, alertLocal, posts, tick, mIn, mOut, matched, timer>>

\* A Writer that indexes a new document for every log instead of updating the
\* document the log was read from
BulkUpdateLogs_create(docs, ls, index_names, applied) ==
    docs \o [k \in 1..Cardinality(applied) |->
                [id |-> Len(docs) + k, index |-> index_names[k], sort |-> Len(docs) + k,
                 content |-> ls[k].content, event_id |-> ls[k].event_id,
                 is_anomaly |-> ls[k].is_anomaly, detection_timestamp |-> NoneTime]]

\* A Writer whose partial document holds is_anomaly only
BulkUpdateLogs_flags(docs, ls, index_names, applied) ==
    [d \in DOMAIN docs |->
        IF \E i \in applied : docs[d].id = ls[i].id /\ docs[d].index = index_names[i]
        THEN LET i == CHOOSE i \in applied :
                         docs[d].id = ls[i].id /\ docs[d].index = index_names[i]
             IN [docs[d] EXCEPT !.is_anomaly = ls[i].is_anomaly]
        ELSE docs[d]]

\* ElasticService.save_logs: one update per log, routed to its index, patching
\* event_id and is_anomaly
BulkUpdateLogs(docs, ls, index_names, applied) ==
    [d \in DOMAIN docs |->
        IF \E i \in applied : docs[d].id = ls[i].id /\ docs[d].index = index_names[i]
        THEN LET i == CHOOSE i \in applied :
                         docs[d].id = ls[i].id /\ docs[d].index = index_names[i]
             IN [docs[d] EXCEPT !.event_id = ls[i].event_id,
                                !.is_anomaly = ls[i].is_anomaly]
        ELSE docs[d]]

\* run(), line 130.  helpers.bulk raises when an update fails (or the transport
\* does): the updates in `applied` are made, and the tick ends in run()'s
\* except clause.
SaveLogs ==
    /\ pc = "save_logs"
    /\ IF logs = <<>>
       THEN /\ pc' = "extend"
            /\ UNCHANGED <<esLogs, tick, logs, index_name, unknown_logs, new_templates>>
       ELSE \E applied \in {1..k : k \in 0..Len(logs)}, raises \in BOOLEAN :
              /\ applied # DOMAIN logs => raises
              /\ esLogs' = BulkUpdateLogs(esLogs, logs, index_name, applied)
              /\ tick' = [tick EXCEPT !.writes =
                            IF applied = {} THEN @ ELSE @ \cup {"logs"}]
              /\ IF raises
                 THEN Return
                 ELSE /\ pc' = "extend"
                      /\ UNCHANGED <<logs, index_name, unknown_logs, new_templates>>
    /\ UNCHANGED <<now, last_sort_value, last_save_time, checkpoint, esEvents,
                   event_templates, alertDoc, alertLocal, posts, mIn, mOut, matched, timer>>

\* ElasticService.save_new_events: building the first update reads event.id,
\* which an Event does not have; the AttributeError is caught and printed, and
\* nothing is sent to the backend.
save_new_events(index, events) ==
    IF events = <<>> THEN index     \* if not events: return
    ELSE index                      \* except Exception: print(...)

\* A run() that makes the returned list the catalog: self.event_templates = new_templates
Extend_replace ==
    /\ pc = "extend"
    /\ event_templates' = new_templates
    /\ esEvents' = save_new_events(esEvents, <<>>)
    /\ pc' = "alert"
    /\ UNCHANGED <<now, last_sort_value, last_save_time, checkpoint, esLogs,
                   logs, index_name, unknown_logs, new_templates,
                   alertDoc, alertLocal, posts, tick, mIn, mOut, matched, timer>>

\* run(), lines 132-134
Extend ==
    /\ pc = "extend"
    /\ LET diff_templates == SubSeq(new_templates, Len(event_templates) + 1,
                                    Len(new_templates))
       IN /\ event_templates' = event_templates \o diff_templates
          /\ esEvents' = save_new_events(esEvents, diff_templates)
          /\ tick' = [tick EXCEPT !.writes =
                        IF esEvents' = esEvents THEN @ ELSE @ \cup {"events"}]
    /\ pc' = "alert"
    /\ UNCHANGED <<now, last_sort_value, last_save_time, checkpoint, esLogs,
                   logs, index_name, unknown_logs, new_templates,
                   alertDoc, alertLocal, posts, mIn, mOut, matched, timer>>

----------------------------------------------------------------------------
\* Alerter (app/scheduler.py, app/services/alert_config_service.py)

\* AlertConfig.  window_hours, levels and slack_webhook_url only shape the count
\* query and the message, which are the backend's and the webhook's business:
\* the count and the HTTP status are inputs of the check.
DefaultConfig ==
    [threshold |-> DefaultThreshold, cooldown_seconds |-> DefaultCooldown,
     last_alert_time |-> NoneTime]

Thresholds == {10, DefaultThreshold}
Cooldowns == {2 * TickSeconds, DefaultCooldown}
Counts == {9, 12, DefaultThreshold}
Statuses == {HttpOk, 204, 500}
Raised == 0      \* requests.post raised: no status

NoCheck == [at |-> 0, config |-> DefaultConfig, count_ok |-> FALSE, count |-> 0]

\* A get_config whose fallback has its own threshold, not the environment's
get_config_fixed(doc, load_ok) ==
    IF load_ok THEN doc ELSE [DefaultConfig EXCEPT !.threshold = 10]

\* AlertConfigService.get_config: the stored document, or the defaults of the
\* environment when reading it raises
get_config(doc, load_ok) == IF load_ok THEN doc ELSE DefaultConfig

\* A check that forgets the cooldown
CooldownPassed_always(alert_config, t) == TRUE

\* A check that wants the count above the threshold, not at it
ShouldPost_strict(alert_config, anomaly_count, t) ==
    /\ anomaly_count > alert_config.threshold
    /\ IF alert_config.last_alert_time # NoneTime
       THEN t - alert_config.last_alert_time >= alert_config.cooldown_seconds
       ELSE TRUE

\* check_anomaly_threshold, lines 74-87: the two conditions of the POST
CooldownPassed(alert_config, t) ==
    IF alert_config.last_alert_time # NoneTime
    THEN t - alert_config.last_alert_time >= alert_config.cooldown_seconds
    ELSE TRUE       \* time_since_last_alert = float('inf')

ShouldPost(alert_config, anomaly_count, t) ==
    /\ anomaly_count >= alert_config.threshold
    /\ CooldownPassed(alert_config, t)

\* line 103: the emission counts as successful
PostSucceeded(status) == status = HttpOk

\* History of the webhook POSTs (kept when posts.on): the instant of the POST,
\* the last_alert_time and the cooldown its check read, whether the emission
\* succeeded.  posts.steady: every check so far found the count at or above
\* the threshold of its configuration.
Record(alert_config, status) ==
    IF posts.on
    THEN [posts EXCEPT !.log = Append(@, [at |-> now,
                                          read |-> alert_config.last_alert_time,
                                          cooldown |-> alert_config.cooldown_seconds,
                                          ok |-> PostSucceeded(status)])]
    ELSE posts

\* posts.check: what the last check read (its configuration, whether the count
\* query answered, the count) and when
Checked(history, alert_config, count_ok, anomaly_count) ==
    IF history.on
    THEN [history EXCEPT
            !.steady = @ /\ count_ok /\ anomaly_count >= alert_config.threshold,
            !.check = [at |-> now, config |-> alert_config, count_ok |-> count_ok,
                       count |-> IF count_ok THEN anomaly_count ELSE 0]]
    ELSE history

\* run(), line 136: check_anomaly_threshold up to the answer of the webhook.
\* Every exception (the count query, the POST) is caught inside the check.
AlertCheck ==
    /\ pc = "alert"
    /\ \E load_ok \in BOOLEAN, count_ok \in BOOLEAN, anomaly_count \in Counts :
        LET alert_config == get_config(alertDoc, load_ok) IN
        IF count_ok /\ ShouldPost(alert_config, anomaly_count, now)
        THEN \E status \in Statuses \cup {Raised} :
               /\ posts' = Checked(Record(alert_config, status), alert_config,
                                 count_ok, anomaly_count)
               /\ IF PostSucceeded(status)
                  THEN /\ pc' = "update"
                       /\ alertLocal' = now
                       /\ UNCHANGED <<logs, index_name, unknown_logs, new_templates>>
                  ELSE /\ Return
                       /\ alertLocal' = NoneTime
        ELSE /\ Return
             /\ posts' = Checked(posts, alert_config, count_ok, anomaly_count)
             /\ UNCHANGED alertLocal
    /\ UNCHANGED <<now, last_sort_value, last_save_time, checkpoint, esLogs, esEvents,
                   event_templates, alertDoc, tick, mIn, mOut, matched, timer>>

\* AlertConfigService.update_last_alert_time: a partial update of the document;
\* an error is printed and swallowed
update_last_alert_time(doc, last_alert_time, ok) ==
    IF ok THEN [doc EXCEPT !.last_alert_time = last_alert_time] ELSE doc

\* check_anomaly_threshold, line 104
AlertUpdate ==
    /\ pc = "update"
    /\ \E ok \in BOOLEAN :
        /\ alertDoc' = update_last_alert_time(alertDoc, alertLocal, ok)
        /\ tick' = [tick EXCEPT !.writes = IF ok THEN @ \cup {"alert"} ELSE @]
    /\ alertLocal' = NoneTime
    /\ Return
    /\ UNCHANGED <<now, last_sort_value, last_save_time, checkpoint, esLogs, esEvents,
                   event_templates, posts, mIn, mOut, matched, timer>>

\* AlertConfigService.update_config: the whole document is replaced by the one
\* of the request
update_config(doc, alert_config, ok) == IF ok THEN alert_config ELSE doc

\* A handler that reads the logs through its own ElasticService (get_logs) and
\* so writes the checkpoint file
ApiPut_get_logs ==
    /\ pc \in {"idle", "update"}
    /\ \E alert_config \in [threshold : Thresholds, cooldown_seconds : Cooldowns,
                            last_alert_time : {NoneTime} \cup {t \in Times : t <= now}],
          ok \in BOOLEAN :
        alertDoc' = update_config(alertDoc, alert_config, ok)
    /\ checkpoint' = CheckpointSave(checkpoint, Len(esLogs), TRUE)
    /\ UNCHANGED <<now, pc, last_sort_value, last_save_time, esLogs,
                   esEvents, event_templates, logs, index_name, unknown_logs,
                   new_templates, alertLocal, posts, tick, mIn, mOut, matched, timer>>

\* PUT /alert-config (app/services/alert_api.py).  The handler runs in the web
\* server, beside the timer's thread: before a check reads the configuration
\* (equivalently, between two ticks) or between the POST and the update.
ApiPut ==
    /\ pc \in {"idle", "update"}
    /\ \E alert_config \in [threshold : Thresholds, cooldown_seconds : Cooldowns,
                            last_alert_time : {NoneTime} \cup {t \in Times : t <= now}],
          ok \in BOOLEAN :
        alertDoc' = update_config(alertDoc, alert_config, ok)
    /\ UNCHANGED <<now, pc, last_sort_value, last_save_time, checkpoint, esLogs,
                   esEvents, event_templates, logs, index_name, unknown_logs,
                   new_templates, alertLocal, posts, tick, mIn, mOut, matched, timer>>

----------------------------------------------------------------------------
\* The environment: log contents, the templates index at bootstrap, ingestion

W_db == <<"d", "b">>
W_io == <<"i", "o">>
W_ok == <<"o", "k">>
W_on == <<"o", "n">>
W_aa == <<"a", "a">>
W_bb == <<"b", "b">>
W_zz == <<"z", "z">>

LogIndex == "logs-1"      \* the index the upstream ingestion writes to
OldIndex == "logs-0"      \* the index of the day before

\* Contents of the documents the upstream ingestion creates
Contents ==
    { Join(<<W_db, W_ok>>),                 \* "db ok"
      Join(<<W_io, W_ok, W_db, W_aa>>),     \* "io ok db aa"
      Join(<<W_io, W_ok, W_db, W_bb>>),     \* "io ok db bb"
      Join(<<W_zz>>) }                      \* "zz"

\* ElasticService.get_events: Event(event_id, template) for every hit.  The
\* catalogs the templates index can hold at bootstrap (print(hits[0]) needs one
\* template at least).
InitialCatalogs ==
    { <<Event(34, Join(<<W_db, W_ok>>), FALSE)>>,
      <<Event(1, Join(<<W_db, W_ok>>), FALSE),
        Event(2, Join(<<W_db, W_ok, W_on, WILD>>), FALSE)>> }

\* The documents of the templates index for a catalog
EventDocs(catalog) ==
    {[id |-> catalog[i].event_id, template |-> catalog[i].template] : i \in DOMAIN catalog}

\* A document of the log index as the upstream ingestion creates it: its sort
\* key is its rank in the index; it has no detection_timestamp yet
LogDoc(n, content) ==
    [id |-> n, index |-> LogIndex, sort |-> n, content |-> content,
     event_id |-> NoneId, is_anomaly |-> FALSE, detection_timestamp |-> NoneTime]

\* Upstream ingestion: a new document, later in the sort order than the others
Create(contents) ==
    /\ pc = "idle"
    /\ Cardinality({d \in DOMAIN esLogs : esLogs[d].index = LogIndex}) < MaxLogs
    /\ \E content \in contents :
        esLogs' = Append(esLogs, LogDoc(Len(esLogs) + 1, content))
    /\ UNCHANGED <<now, pc, last_sort_value, last_save_time, checkpoint, esEvents,
                   event_templates, logs, index_name, unknown_logs, new_templates,
                   alertDoc, alertLocal, posts, tick, mIn, mOut, matched, timer>>

Ingest == Create(Contents)

\* Ingestion of logs that the bootstrap catalog knows
IngestKnown == Create({Join(<<W_db, W_ok>>)})

----------------------------------------------------------------------------
\* The interval job (app/main.py)

\* lifespan, lines 14-16: the job is added and the scheduler started.  state:
\* on, stopping (shutdown called), stopped (shutdown returned); started: the
\* instant the job was last started; missed: the instant of the last firing
\* that started no execution; extra: executions of run() started while one was
\* in progress.
TimerStarted == [state |-> "on", started |-> NoneTime, missed |-> NoneTime, extra |-> 0]

\* Executions of run() in progress
Executions == (IF pc = "idle" THEN 0 ELSE 1) + timer.extra

\* A job that may run in any number of instances at once
MayStart_always(running) == TRUE

\* add_job without max_instances: the scheduler starts the job at a firing
\* only when no instance of it is running (one instance at most)
MayStart(running) == running = 0

\* A firing of the interval trigger while the worker is free: run() starts
FireStart ==
    /\ timer.state = "on"
    /\ MayStart(Executions)
    /\ ReadAfter({TickSeconds}, TimesTo(MaxTimerTicks))
    /\ timer' = [timer EXCEPT !.started = now']

\* A firing while run() is in progress: the instance limit decides whether
\* another execution starts; a firing that starts none is dropped, not queued
FireBusy ==
    /\ timer.state = "on"
    /\ pc # "idle"
    /\ now + TickSeconds \in TimesTo(MaxTimerTicks)
    /\ now' = now + TickSeconds
    /\ timer' = IF MayStart(Executions)
                THEN [timer EXCEPT !.extra = @ + 1, !.started = now']
                ELSE [timer EXCEPT !.missed = now']
    /\ UNCHANGED <<pc, last_sort_value, last_save_time, checkpoint, esLogs, esEvents,
                   event_templates, logs, index_name, unknown_logs, new_templates,
                   alertDoc, alertLocal, posts, tick, mIn, mOut, matched>>

\* lifespan, line 20: scheduler.shutdown() stops the trigger ...
Shutdown ==
    /\ timer.state = "on"
    /\ timer' = [timer EXCEPT !.state = "stopping"]
    /\ UNCHANGED <<now, pc, last_sort_value, last_save_time, checkpoint, esLogs, esEvents,
                   event_templates, logs, index_name, unknown_logs, new_templates,
                   alertDoc, alertLocal, posts, tick, mIn, mOut, matched>>

\* ... and returns once the execution in progress, if any, has returned
ShutdownReturns ==
    /\ timer.state = "stopping"
    /\ pc = "idle"
    /\ timer' = [timer EXCEPT !.state = "stopped"]
    /\ UNCHANGED <<now, pc, last_sort_value, last_save_time, checkpoint, esLogs, esEvents,
                   event_templates, logs, index_name, unknown_logs, new_templates,
                   alertDoc, alertLocal, posts, tick, mIn, mOut, matched>>

----------------------------------------------------------------------------
\* Specifications

NoHarness == [catalog |-> <<>>]

InitCommon ==
    /\ now = 0
    /\ pc = "idle"
    /\ checkpoint = Absent
    /\ last_sort_value = InitialCursor(Absent)
    /\ last_save_time = 0
    /\ logs = <<>>
    /\ index_name = <<>>
    /\ unknown_logs = <<>>
    /\ new_templates = <<>>
    /\ alertLocal = NoneTime
    /\ tick = NoTick
    /\ mOut = <<>>
    /\ matched = {}
    /\ timer = TimerStarted

\* The pipeline: ingestion, ticks; the alert configuration is the default one
Init ==
    /\ InitCommon
    /\ esLogs \in {<<>>, <<[LogDoc(1, Join(<<W_db, W_ok>>)) EXCEPT !.index = OldIndex]>>}
    /\ mIn = NoHarness
    /\ event_templates \in InitialCatalogs
    /\ esEvents = EventDocs(event_templates)
    /\ alertDoc = DefaultConfig
    /\ posts = [on |-> FALSE, log |-> <<>>, steady |-> TRUE, check |-> NoCheck]

Next ==
    \/ Ingest
    \/ GetLogs
    \/ Stamp
    \/ Matcher
    \/ Clusterer
    \/ SaveLogs
    \/ Extend
    \/ AlertCheck
    \/ AlertUpdate

Spec == Init /\ [][Next]_vars

\* The alerter: ticks over an empty log index, the API rewriting the alert
\* configuration, the history of the POSTs kept
InitAlert ==
    /\ InitCommon
    /\ esLogs = <<>>
    /\ mIn = NoHarness
    /\ event_templates = <<Event(34, Join(<<W_db, W_ok>>), FALSE)>>
    /\ esEvents = EventDocs(event_templates)
    /\ alertDoc \in [threshold : Thresholds, cooldown_seconds : Cooldowns,
                     last_alert_time : {NoneTime}]
    /\ posts = [on |-> TRUE, log |-> <<>>, steady |-> TRUE, check |-> NoCheck]

NextAlert ==
    \/ GetLogs
    \/ Stamp
    \/ Matcher
    \/ Clusterer
    \/ SaveLogs
    \/ Extend
    \/ AlertCheck
    \/ AlertUpdate
    \/ ApiPut

SpecAlert == InitAlert /\ [][NextAlert]_vars

\* The cursor reader: known logs arrive, the timer fires on schedule or late
InitReader ==
    /\ InitCommon
    /\ esLogs = <<>>
    /\ mIn = NoHarness
    /\ event_templates = <<Event(34, Join(<<W_db, W_ok>>), FALSE)>>
    /\ esEvents = EventDocs(event_templates)
    /\ alertDoc = DefaultConfig
    /\ posts = [on |-> FALSE, log |-> <<>>, steady |-> TRUE, check |-> NoCheck]

NextReader ==
    \/ IngestKnown
    \/ GetLogsLate
    \/ Stamp
    \/ Matcher
    \/ Clusterer
    \/ SaveLogs
    \/ Extend
    \/ AlertCheck
    \/ AlertUpdate

SpecReader == InitReader /\ [][NextReader]_vars

\* The lifespan of the application: known logs arrive, the interval trigger
\* fires every TickSeconds while the steps of a tick take time, and the
\* application shuts down
InitLifespan == InitReader

NextLifespan ==
    \/ IngestKnown
    \/ FireStart
    \/ FireBusy
    \/ Stamp
    \/ Matcher
    \/ Clusterer
    \/ SaveLogs
    \/ Extend
    \/ AlertCheck
    \/ AlertUpdate
    \/ Shutdown
    \/ ShutdownReturns

SpecLifespan == InitLifespan /\ [][NextLifespan]_vars

----------------------------------------------------------------------------
\* Matcher harness: one log matched on a catalog, and on the catalog with
\* templates appended at its end

MaxCat == 2          \* templates of the catalog
MaxExt == 1          \* templates appended
MaxStrLen == 3       \* characters of the log content

SeqsTo(S, n) == UNION {[1..k -> S] : k \in 0..n}

HarnessEvents ==
    { Event(1, <<"a">>, FALSE),                  \* "a"
      Event(2, <<"a", SP>> \o WILD, FALSE),      \* "a <*>"
      Event(34, WILD, FALSE),                    \* "<*>"
      Event(4, WILD \o <<SP, "b">>, FALSE),      \* "<*> b"
      Event(5, <<"a", SP, "b">>, FALSE) }        \* "a b"

HarnessContents == SeqsTo({"a", "b", SP}, MaxStrLen)

InitMatcher ==
    /\ InitCommon
    /\ esLogs = <<>>
    /\ mIn \in [catalog : SeqsTo(HarnessEvents, MaxCat)]
    /\ event_templates = <<>>
    /\ esEvents = {}
    /\ alertDoc = DefaultConfig
    /\ posts = [on |-> FALSE, log |-> <<>>, steady |-> TRUE, check |-> NoCheck]

MatchTwice ==
    /\ mOut = <<>>
    /\ \E content \in HarnessContents, appended \in SeqsTo(HarnessEvents, MaxExt) \ {<<>>} :
        LET batch == <<LogEntry(1, content, NoneId, FALSE)>>
        IN mOut' = <<[first    |-> check_anomaly(batch, mIn.catalog),
                      second   |-> check_anomaly(batch, mIn.catalog \o appended),
                      appended |-> appended]>>
    /\ UNCHANGED <<now, pc, last_sort_value, last_save_time, checkpoint, esLogs, esEvents,
                   event_templates, logs, index_name, unknown_logs, new_templates,
                   alertDoc, alertLocal, posts, tick, mIn, matched, timer>>

NextMatcher == MatchTwice

SpecMatcher == InitMatcher /\ [][NextMatcher]_vars

----------------------------------------------------------------------------
\* Cursor reader

\* C1: across ticks, failed or not, the cursor in memory never decreases, and
\* the cursor in the checkpoint file, once written, never decreases
C1_CursorMonotone ==
    [][/\ last_sort_value' >= last_sort_value
       /\ checkpoint.exists =>
            /\ checkpoint'.exists
            /\ checkpoint'.last_sort_value >= checkpoint.last_sort_value]_vars

\* The tick found a checkpoint file and rewrote it with a later cursor
C1_SecondSave ==
    /\ tick.file0.exists
    /\ checkpoint.exists
    /\ checkpoint.last_sort_value > tick.file0.last_sort_value
    /\ last_sort_value = checkpoint.last_sort_value

\* C2: a tick whose search failed ends without any backend write (logs,
\* templates, last_alert_time), with the cursor in memory and the checkpoint
\* file as it found them, and the tick after it sends the same cursor
C2_FailedSearchWritesNothing ==
    /\ [](pc = "idle" /\ tick.failed =>
            /\ tick.writes = {}
            /\ last_sort_value = tick.sent
            /\ checkpoint = tick.file0)
    /\ [][tick.failed /\ tick' # tick => tick'.sent = tick.sent]_vars

\* A search failed after the cursor had moved and had been saved
C2_FailedAfterProgress ==
    /\ pc = "idle"
    /\ tick.failed
    /\ tick.sent > 0
    /\ checkpoint.exists

----------------------------------------------------------------------------
\* Alerter

\* The POSTs i..j of the history, all of checks that read the same cooldown
SameCooldown(i, j) ==
    \A k \in i..j : posts.log[k].cooldown = posts.log[i].cooldown

\* Every POST after the first was decided on the instant of the POST before it
ReadPrevious(i, j) ==
    \A k \in (i + 1)..j : posts.log[k].read = posts.log[k - 1].at

\* 1 + floor(T / cooldown_seconds), T being the time from POST i to POST j
Allowed(i, j) ==
    1 + ((posts.log[j].at - posts.log[i].at) \div posts.log[i].cooldown)

C4_Condition(c) ==
    /\ c.count_ok
    /\ c.count >= c.config.threshold
    /\ \/ c.config.last_alert_time = NoneTime
       \/ c.at - c.config.last_alert_time >= c.config.cooldown_seconds

\* C4: a check issues one POST when the count is >= threshold and the time since
\* last_alert_time is >= cooldown_seconds (no last_alert_time: any time), and
\* no POST otherwise
C4_PostIff ==
    [][pc = "alert" /\ pc' # "alert" =>
         Len(posts'.log) - Len(posts.log) =
            IF C4_Condition(posts'.check) THEN 1 ELSE 0]_vars

\* After a POST, a check found the count above the threshold inside the
\* cooldown, and issued no POST
C4_HeldBack ==
    /\ pc = "idle"
    /\ posts.log # <<>>
    /\ posts.check.count_ok
    /\ posts.check.count >= posts.check.config.threshold
    /\ posts.check.config.last_alert_time = posts.log[Len(posts.log)].at
    /\ posts.check.at > posts.log[Len(posts.log)].at

\* C5: after a POST answered 200 the stored last_alert_time is the `now` of the
\* check; after a POST answered otherwise, or that raised, it is unchanged
C5_StoredAfterPost ==
    [][/\ pc = "update" /\ pc' = "idle" => alertDoc'.last_alert_time = now
       /\ pc = "alert" /\ pc' = "idle" => alertDoc' = alertDoc]_vars

\* C6: the stored last_alert_time never decreases and is never removed
C6_LastAlertMonotone ==
    [][alertDoc'.last_alert_time >= alertDoc.last_alert_time]_vars

----------------------------------------------------------------------------
\* Catalog and Matcher

\* C7: no two templates of the live catalog have the same event_id
C7_UniqueIds ==
    \A i \in DOMAIN event_templates, j \in DOMAIN event_templates :
        i # j => event_templates[i].event_id # event_templates[j].event_id

\* C8: a log that the Matcher gives event id e on a catalog is given e on the
\* catalog with templates appended
C8_MatchStable ==
    mOut # <<>> /\ mOut[1].first.unknown = <<>> =>
        /\ mOut[1].second.unknown = <<>>
        /\ mOut[1].second.logs[1].event_id = mOut[1].first.logs[1].event_id

\* The log matches a template of the catalog and the appended template, which
\* has another event id
C8_AppendedMatchesToo ==
    /\ mOut # <<>>
    /\ mOut[1].first.unknown = <<>>
    /\ LET log == mOut[1].first.logs[1]
           event == mOut[1].appended[1]
       IN /\ PatternMatch(_get_pattern(event.template), log.content)
          /\ event.event_id # log.event_id

\* C9: a content the Matcher gave event id e is given e by the Matcher in every
\* later tick
C9_MatchesStable ==
    \A p \in matched, q \in matched : p[1] = q[1] => p[2] = q[2]

\* The templates whose pattern matches the content
Matching(content) ==
    {k \in DOMAIN event_templates :
        PatternMatch(_get_pattern(event_templates[k].template), content)}

\* C10: after the Matcher, a log a template matched has the is_abnormal of the
\* template as is_anomaly and is not among the unknown logs; a log no template
\* matched has is_anomaly true and is among the unknown logs
C10_Propagation ==
    pc = "cluster" =>
        \A i \in DOMAIN logs :
            IF Matching(logs[i].content) # {}
            THEN /\ \E k \in Matching(logs[i].content) :
                        /\ logs[i].event_id = event_templates[k].event_id
                        /\ logs[i].is_anomaly = event_templates[k].is_abnormal
                 /\ i \notin Range(unknown_logs)
            ELSE /\ logs[i].is_anomaly
                 /\ i \in Range(unknown_logs)

\* The batch holds a log matched by an abnormal template and an unknown log
C10_AbnormalAndUnknown ==
    /\ pc = "cluster"
    /\ unknown_logs # <<>>
    /\ \E i \in DOMAIN logs :
          /\ i \notin Range(unknown_logs)
          /\ logs[i].is_anomaly
          /\ logs[i].event_id \in abnormal_event_ids

----------------------------------------------------------------------------
\* Writer

\* C11: a log document that a tick wrote as an anomaly carries the id of a
\* template or E0, never a null or empty event id
C11_WrittenAnomalyHasId ==
    \A d \in DOMAIN esLogs : esLogs[d].is_anomaly => esLogs[d].event_id >= 0

\* C12: when the Writer step of a tick has extended the catalog, the live
\* catalog is the list the Clusterer returned: the same templates, in the same
\* order, with the same event ids
C12_CatalogIsReturnedList ==
    pc = "alert" => event_templates = new_templates

\* C13: the step that extends the catalog leaves in the templates index, for
\* every template of the diff (the templates of the returned list beyond the
\* previous catalog size), a document keyed by the template's event id that
\* holds its template string
C13_NewTemplatesSaved ==
    [][pc = "extend" /\ pc' = "alert" =>
          \A k \in (Len(event_templates) + 1)..Len(new_templates) :
              \E d \in esEvents' : /\ d.id = new_templates[k].event_id
                                   /\ d.template = new_templates[k].template]_vars

\* C14: every log document that the Writer step of a tick changes has, in the
\* backend, the detection_timestamp the tick stamped on its logs
C14_StampWritten ==
    [][pc = "save_logs" =>
          \A d \in DOMAIN esLogs :
              esLogs'[d] # esLogs[d] => esLogs'[d].detection_timestamp = now]_vars

\* C15: whatever the outcome of the bulk write of the logs (all updates made,
\* or some of them failed), the tick goes on to extend the catalog
C15_TickProceedsAfterBulk ==
    [][pc = "save_logs" /\ logs # <<>> => pc' = "extend"]_vars

\* C20: once the Writer has written the logs of a tick, writing the same logs
\* to the same indices again leaves the log indices as they are; and saving
\* the new templates of the tick a second time leaves the templates index as
\* the first save left it
C20_WriterIdempotent ==
    /\ [](pc = "extend" =>
              BulkUpdateLogs(esLogs, logs, index_name, DOMAIN logs) = esLogs)
    /\ [][pc = "extend" /\ pc' = "alert" =>
              save_new_events(esEvents',
                              SubSeq(new_templates, Len(event_templates) + 1,
                                     Len(new_templates))) = esEvents']_vars

\* The Writer has written a batch of logs, one of them with an event id, and
\* the tick has new templates to save
C20_WroteLogsAndTemplates ==
    /\ pc = "extend"
    /\ Len(new_templates) > Len(event_templates)
    /\ \E i \in DOMAIN logs, d \in DOMAIN esLogs :
          /\ esLogs[d].id = logs[i].id
          /\ esLogs[d].event_id = logs[i].event_id
          /\ logs[i].event_id # NoneId

----------------------------------------------------------------------------
\* Tick boundary

\* The positions of the worker inside run(), in order
Steps == <<"idle", "stamp", "match", "cluster", "save_logs", "extend", "alert", "update">>

\* C16: whatever a step of the tick raises, run() returns: the worker is at one
\* of the positions of run(), a step leads to the next position or back to
\* idle with run()'s locals gone, and at idle the timer can start the next
\* tick as long as the clock of the model allows
C16_NoEscape ==
    /\ [](pc \in Range(Steps))
    /\ [](pc = "idle" /\ now + TickSeconds \in TimesTo(MaxTicks) /\ ~posts.on
              => ENABLED GetLogs)
    /\ [][pc' # pc =>
            \/ \E k \in DOMAIN Steps : k < Len(Steps) /\ pc = Steps[k] /\ pc' = Steps[k + 1]
            \/ /\ pc' = "idle"
               /\ logs' = <<>> /\ index_name' = <<>>
               /\ unknown_logs' = <<>> /\ new_templates' = <<>>]_vars

\* A tick has run all its steps up to the Alerter on a batch of logs, after an
\* earlier tick read a document and ended before writing it back
C16_RunsAfterFailedTick ==
    /\ pc = "alert"
    /\ logs # <<>>
    /\ \E d \in DOMAIN esLogs :
          /\ esLogs[d].sort <= tick.sent
          /\ esLogs[d].event_id = NoneId
          /\ ~esLogs[d].is_anomaly

----------------------------------------------------------------------------
\* Lifespan

\* C17: at most one execution of run() is in progress at any time; a tick
\* starts at a firing of the interval trigger, when no execution is in
\* progress, and never at the instant of a firing that was dropped (no firing
\* is made up for later)
C17_NoOverlap ==
    /\ [](Executions <= 1)
    /\ [][pc = "idle" /\ pc' # "idle" =>
            /\ timer.extra = 0
            /\ now' = now + TickSeconds
            /\ timer'.started = now'
            /\ timer'.missed # now']_vars

\* A firing found the previous tick still in progress and was dropped; the
\* tick returned, and the next tick started at a later firing
C17_StartsAfterLongTick ==
    /\ timer.missed # NoneTime
    /\ timer.started > timer.missed
    /\ pc # "idle"

\* C18: once the shutdown has returned, the checkpoint file holds the cursor
\* that is in memory
C18_FlushedOnShutdown ==
    timer.state = "stopped" /\ last_sort_value # 0 =>
        /\ checkpoint.exists
        /\ checkpoint.last_sort_value = last_sort_value

----------------------------------------------------------------------------
\* Cooldown

\* C19: after a webhook emission that succeeded, no POST is issued before the
\* cooldown (as the check that issues the POST reads it) has elapsed since
\* that emission
C19_CooldownAfterSuccess ==
    \A i \in DOMAIN posts.log, j \in DOMAIN posts.log :
        i < j /\ posts.log[i].ok =>
            posts.log[j].at - posts.log[i].at >= posts.log[j].cooldown

----------------------------------------------------------------------------
\* Template harness: one cluster of logs, its template synthesized

MaxCluster == 2      \* logs of the cluster
MaxTokens == 2       \* tokens of a log of the cluster

HarnessTokens == {<<"a">>, <<"b">>, WILD}

HarnessClusterLogs == {Join(ts) : ts \in SeqsTo(HarnessTokens, MaxTokens)}

InitTemplate ==
    /\ InitCommon
    /\ esLogs = <<>>
    /\ mIn \in [cluster_logs : UNION {[1..k -> HarnessClusterLogs] : k \in 2..MaxCluster}]
    /\ event_templates = <<>>
    /\ esEvents = {}
    /\ alertDoc = DefaultConfig
    /\ posts = [on |-> FALSE, log |-> <<>>, steady |-> TRUE, check |-> NoCheck]

Synthesize ==
    /\ mOut = <<>>
    /\ mOut' = <<[tokens   |-> TemplateTokens(mIn.cluster_logs),
                  template |-> _generate_template_from_cluster(mIn.cluster_logs)]>>
    /\ UNCHANGED <<now, pc, last_sort_value, last_save_time, checkpoint, esLogs, esEvents,
                   event_templates, logs, index_name, unknown_logs, new_templates,
                   alertDoc, alertLocal, posts, tick, mIn, matched, timer>>

NextTemplate == Synthesize

SpecTemplate == InitTemplate /\ [][NextTemplate]_vars

----------------------------------------------------------------------------
\* Template synthesis

\* C21: the template synthesized from a cluster of two or more logs never holds
\* two "<*>" tokens next to each other
C21_NoAdjacentWildcards ==
    mOut # <<>> =>
        LET tokens == Split(mOut[1].template)
        IN \A p \in 1..(Len(tokens) - 1) : ~(tokens[p] = WILD /\ tokens[p + 1] = WILD)

\* The logs of the cluster differ at two positions next to each other, and the
\* template is synthesized
C21_TwoPositionsDiffer ==
    /\ mOut # <<>>
    /\ \E p \in 1..(MaxTokens - 1) :
          \A q \in {p, p + 1} :
             \E i \in DOMAIN mIn.cluster_logs, j \in DOMAIN mIn.cluster_logs :
                /\ Len(Split(mIn.cluster_logs[i])) >= q
                /\ Len(Split(mIn.cluster_logs[j])) >= q
                /\ Split(mIn.cluster_logs[i])[q] # Split(mIn.cluster_logs[j])[q]

\* C29: before the collapse, the template of a cluster of two or more logs
\* holds at each position the token that every log of the cluster has at that
\* position, and "<*>" at a position where the logs differ or that some log of
\* the cluster does not have
C29_TokenIffShared ==
    mOut # <<>> =>
        LET token_arrays == [i \in DOMAIN mIn.cluster_logs |-> Split(mIn.cluster_logs[i])]
            shared(p) == /\ \A i \in DOMAIN token_arrays : Len(token_arrays[i]) >= p
                         /\ \A i \in DOMAIN token_arrays :
                               token_arrays[i][p] = token_arrays[1][p]
        IN /\ \A i \in DOMAIN token_arrays : Len(token_arrays[i]) <= Len(mOut[1].tokens)
           /\ \A p \in DOMAIN mOut[1].tokens :
                 mOut[1].tokens[p] = IF shared(p) THEN token_arrays[1][p] ELSE WILD

----------------------------------------------------------------------------
\* Merge harness: a list of templates with distinct strings, merged

MaxMerge == 3        \* templates of the list

HarnessTemplates ==
    { W_db,                                   \* "db"
      Join(<<W_db, W_ok>>),                   \* "db ok"
      Join(<<W_db, W_io>>),                   \* "db io"
      Join(<<W_db, WILD>>),                   \* "db <*>"
      Join(<<W_db, W_ok, W_io>>),             \* "db ok io"
      W_zz }                                  \* "zz"

InitMerge ==
    /\ InitCommon
    /\ esLogs = <<>>
    /\ mIn \in [templates :
                  {ts \in SeqsTo(HarnessTemplates, MaxMerge) :
                      /\ ts # <<>>
                      /\ \A i \in DOMAIN ts, j \in DOMAIN ts : i # j => ts[i] # ts[j]}]
    /\ event_templates = <<>>
    /\ esEvents = {}
    /\ alertDoc = DefaultConfig
    /\ posts = [on |-> FALSE, log |-> <<>>, steady |-> TRUE, check |-> NoCheck]

Merge ==
    /\ mOut = <<>>
    /\ LET templates == UniqueObjs(<<>>, mIn.templates)
       IN \E sim \in Outcomes(TemplateBags(templates)) :
             mOut' = <<[templates |-> templates,
                        groups    |-> MergeGroups(1, {}, templates, sim),
                        merged    |-> _merge_similar_templates(templates, sim)]>>
    /\ UNCHANGED <<now, pc, last_sort_value, last_save_time, checkpoint, esLogs, esEvents,
                   event_templates, logs, index_name, unknown_logs, new_templates,
                   alertDoc, alertLocal, posts, tick, mIn, matched, timer>>

NextMerge == Merge

SpecMerge == InitMerge /\ [][NextMerge]_vars

----------------------------------------------------------------------------
\* Merge survivor

\* C23: the survivor of every group the merge forms is a member of the group,
\* the one at index len(G)//2 of the group sorted ascending by template length
\* (members of equal length in the order of the group): exactly len(G)//2
\* members come before it in that order
C23_MedianSurvivor ==
    mOut # <<>> =>
        LET G == mOut[1].groups
            length(p) == Len(mOut[1].templates[p].ev.template)
        IN /\ Len(mOut[1].merged) = Len(G)
           /\ \A g \in DOMAIN G :
                 \E k \in DOMAIN G[g] :
                    /\ mOut[1].merged[g] = G[g][k]
                    /\ Cardinality({j \in DOMAIN G[g] :
                                      \/ length(G[g][j]) < length(G[g][k])
                                      \/ length(G[g][j]) = length(G[g][k]) /\ j < k})
                         = Len(G[g]) \div 2

\* A group of three templates that is not in the order of the lengths, whose
\* survivor is neither its first member nor its shortest or longest one
C23_GroupOfThree ==
    /\ mOut # <<>>
    /\ \E g \in DOMAIN mOut[1].groups :
          LET G == mOut[1].groups[g]
              length(p) == Len(mOut[1].templates[p].ev.template)
          IN /\ Len(G) = 3
             /\ mOut[1].merged[g] # G[1]
             /\ \E j \in DOMAIN G : length(G[j]) < length(mOut[1].merged[g])
             /\ \E j \in DOMAIN G : length(G[j]) > length(mOut[1].merged[g])

----------------------------------------------------------------------------
\* Clusterer harness: a batch of logs and a catalog, matched and clustered.
\* The catalog is the argument of cluster_and_generate_templates: any list of
\* templates, the empty one included.

MaxBatch == 3        \* logs of the batch

HarnessLogContents ==
    { <<"t", "a", "s", "k", SP, "1", SP, "s", "t", "a", "r", "t", "e", "d">>,
      <<"t", "a", "s", "k", SP, "2", SP, "s", "t", "a", "r", "t", "e", "d">>,
      <<"t", "a", "s", "k", SP, "3", SP, "s", "t", "a", "r", "t", "e", "d">>,
      Join(<<W_aa, W_zz>>),                  \* "aa zz"
      Join(<<W_zz, W_bb>>),                  \* "zz bb"
      Join(<<W_db, W_ok>>),                  \* "db ok"
      <<SP>> }                               \* " "

HarnessCatalogs ==
    { <<>>,
      <<Event(34, Join(<<W_db, W_ok>>), FALSE)>>,                     \* "db ok"
      <<Event(1, Join(<<W_zz, W_bb>>), FALSE),                        \* "zz bb"
        Event(2, Join(<<WILD, WILD, WILD, WILD, W_db>>), FALSE)>>,    \* "<*> <*> <*> <*> db"
      <<Event(7, Join(<<WILD, W_on>>), FALSE)>> }                     \* "<*> on"

InitClusterer ==
    /\ now = 0
    /\ pc = "match"
    /\ checkpoint = Absent
    /\ last_sort_value = InitialCursor(Absent)
    /\ last_save_time = 0
    /\ mIn \in [batch : SeqsTo(HarnessLogContents, MaxBatch), catalog : HarnessCatalogs]
    /\ logs = [i \in DOMAIN mIn.batch |->
                 [LogEntry(i, mIn.batch[i], NoneId, FALSE) EXCEPT !.detection_timestamp = now]]
    /\ index_name = [i \in DOMAIN mIn.batch |-> LogIndex]
    /\ esLogs = [i \in DOMAIN mIn.batch |-> LogDoc(i, mIn.batch[i])]
    /\ event_templates = mIn.catalog
    /\ esEvents = EventDocs(mIn.catalog)
    /\ unknown_logs = <<>>
    /\ new_templates = <<>>
    /\ alertLocal = NoneTime
    /\ tick = NoTick
    /\ mOut = <<>>
    /\ matched = {}
    /\ timer = TimerStarted
    /\ alertDoc = DefaultConfig
    /\ posts = [on |-> FALSE, log |-> <<>>, steady |-> TRUE, check |-> NoCheck]

NextClusterer == Matcher \/ Clusterer

SpecClusterer == InitClusterer /\ [][NextClusterer]_vars

----------------------------------------------------------------------------
\* Clusterer

\* C22: every template of the list the Clusterer returns after the merge,
\* taken from the catalog or new, has a fraction of "<*>" tokens below 0.8
C22_NoGenericSurvivor ==
    pc = "save_logs" /\ ~ReturnsEarly(logs, unknown_logs) =>
        \A k \in DOMAIN new_templates :
            LET tokens == Split(new_templates[k].template)
            IN 10 * Cardinality({p \in DOMAIN tokens : tokens[p] = WILD}) < 8 * Len(tokens)

\* C24: with an empty catalog and a batch of logs that differ in exactly one
\* token position, the Clusterer returns one template, the shared tokens with
\* "<*>" at that position, with the id E1, and every log of the batch ends with
\* the id E1 and is_anomaly true
C24_OneTemplateForOnePosition ==
    LET token_arrays == [i \in DOMAIN mIn.batch |-> Split(mIn.batch[i])]
        differ == {p \in DOMAIN token_arrays[1] :
                     \E i \in DOMAIN token_arrays : token_arrays[i][p] # token_arrays[1][p]}
    IN /\ pc = "save_logs"
       /\ mIn.catalog = <<>>
       /\ Len(mIn.batch) >= 2
       /\ \A i \in DOMAIN token_arrays : Len(token_arrays[i]) = Len(token_arrays[1])
       /\ Cardinality(differ) = 1
       => /\ Len(new_templates) = 1
          /\ new_templates[1].event_id = 1
          /\ new_templates[1].template =
                Join([p \in DOMAIN token_arrays[1] |->
                        IF p \in differ THEN WILD ELSE token_arrays[1][p]])
          /\ \A i \in DOMAIN logs : logs[i].event_id = 1 /\ logs[i].is_anomaly

C30_EarlyReturnKeepsCatalog ==
    [][/\ pc = "cluster"
       /\ \/ unknown_logs = <<>>
          \/ ValidContents(logs, unknown_logs) = <<>>
          \/ LogVectorizerRaises(ValidContents(logs, unknown_logs))
       => /\ pc' = "save_logs"
          /\ new_templates' = event_templates
          /\ event_templates' = event_templates
          /\ logs' = logs
          /\ \A u \in DOMAIN unknown_logs :
                /\ logs'[unknown_logs[u]].event_id = NoneId
                /\ logs'[unknown_logs[u]].is_anomaly]_vars

\* The Clusterer has returned from a call whose log vectorizer raised, with a
\* catalog that holds templates
C30_VectorizerRaised ==
    /\ pc = "save_logs"
    /\ event_templates # <<>>
    /\ ValidContents(logs, unknown_logs) # <<>>
    /\ LogVectorizerRaises(ValidContents(logs, unknown_logs))

----------------------------------------------------------------------------
\* Order of the steps

\* C26: a tick goes through its steps in one order (read, stamp, classify,
\* cluster, write the logs, extend the catalog and write the templates, check
\* the alert), each step starting from what the steps before it left: the
\* batch is stamped when it is classified, it is classified and clustered
\* before the Writer starts and not changed afterwards, the backend logs are
\* written in the Writer step only and the catalog grows after it
C26_StepsInOrder ==
    /\ [][pc' # pc =>
            \/ <<pc, pc'>> \in {<<"idle", "stamp">>, <<"stamp", "match">>,
                                <<"match", "cluster">>, <<"cluster", "save_logs">>,
                                <<"save_logs", "extend">>, <<"extend", "alert">>,
                                <<"alert", "update">>}
            \/ pc' = "idle"]_vars
    /\ [](pc \in {"match", "cluster", "save_logs", "extend"} =>
            \A i \in DOMAIN logs : logs[i].detection_timestamp = now)
    /\ [](pc \in {"cluster", "save_logs", "extend"} =>
            \A i \in DOMAIN logs :
                logs[i].is_anomaly \/ logs[i].event_id # NoneId)
    /\ [][logs' # logs /\ pc' # "idle" => pc \in {"idle", "stamp", "match", "cluster"}]_vars
    /\ [][esLogs' # esLogs /\ pc # "idle" => pc = "save_logs"]_vars
    /\ [][Len(event_templates') > Len(event_templates) => pc = "extend"]_vars

\* A tick has written its logs and extended the catalog, and is at the alert
\* check
C26_TickAtAlertCheck ==
    /\ pc = "alert"
    /\ "logs" \in tick.writes
    /\ logs # <<>>

----------------------------------------------------------------------------
\* Enrichment

----------------------------------------------------------------------------
\* First prefix match

\* The template describes a prefix of the content: the items of the template
\* (its characters, each "<*>" one item) take consecutive pieces of the
\* content from its start, a character the same character, a "<*>" one or
\* more characters that are not spaces.  ends[i] is where the piece of item i
\* ends.
DescribesPrefix(template, content) ==
    LET items == _get_pattern(template)
        from(ends, i) == IF i = 1 THEN 1 ELSE ends[i - 1] + 1
    IN \E ends \in [DOMAIN items -> 1..Len(content)] :
          \A i \in DOMAIN items :
             /\ from(ends, i) <= ends[i]
             /\ IF items[i] = <<"any">>
                THEN \A p \in from(ends, i)..ends[i] : content[p] # SP
                ELSE /\ ends[i] = from(ends, i)
                     /\ content[ends[i]] = items[i][2]

\* C28: the Matcher gives a log the event_id of the first template, in catalog
\* order, that describes a prefix of the content, whatever follows the prefix
\* and whatever later templates describe it too; a log no template describes
\* keeps its event_id and is unknown
C28_FirstPrefixMatchWins ==
    mOut # <<>> =>
        LET content == mOut[1].first.logs[1].content
            describing == {k \in DOMAIN mIn.catalog :
                              DescribesPrefix(mIn.catalog[k].template, content)}
        IN IF describing = {}
           THEN /\ mOut[1].first.unknown = <<1>>
                /\ mOut[1].first.logs[1].event_id = NoneId
           ELSE /\ mOut[1].first.unknown = <<>>
                /\ mOut[1].first.logs[1].event_id =
                      mIn.catalog[CHOOSE k \in describing :
                                     \A m \in describing : k <= m].event_id

\* Two templates with different ids describe a prefix of the content, the
\* first one with a "<*>", and content is left after what the first describes
C28_TwoTemplatesTrailingContent ==
    /\ mOut # <<>>
    /\ Len(mIn.catalog) = 2
    /\ mIn.catalog[1].event_id # mIn.catalog[2].event_id
    /\ mIn.catalog[1].template = WILD
    /\ mOut[1].first.logs[1].content = <<"a", SP, "b">>
    /\ DescribesPrefix(mIn.catalog[2].template, mOut[1].first.logs[1].content)
    /\ mOut[1].first.logs[1].event_id = mIn.catalog[1].event_id

----------------------------------------------------------------------------
\* Alert configuration that cannot be loaded

\* C31: a check that does not evaluate the stored alert configuration (loading
\* it failed) evaluates the defaults of the environment, and goes on to the end:
\* it counts, and it POSTs exactly when the count answers and is at or above
\* the default threshold (the defaults hold no last_alert_time)
C31_DefaultsOnLoadError ==
    [][pc = "alert" /\ posts'.check.config # alertDoc =>
         /\ posts'.check.config = DefaultConfig
         /\ posts'.check.at = now
         /\ Len(posts'.log) > Len(posts.log) <=>
               posts'.check.count_ok /\ posts'.check.count >= DefaultThreshold]_vars

\* A POST was decided on the defaults while the stored configuration holds
\* another threshold and a last_alert_time
C31_PostOnDefaults ==
    /\ pc = "update"
    /\ posts.check.at = now
    /\ posts.check.config = DefaultConfig
    /\ alertDoc.threshold # DefaultThreshold
    /\ alertDoc.last_alert_time # NoneTime
    /\ posts.log # <<>>
    /\ posts.log[Len(posts.log)].at = now
    /\ posts.log[Len(posts.log)].read = NoneTime

----------------------------------------------------------------------------
\* Checkpoint file

\* C32: after a Reader call that returns a batch, the cursor in memory is the
\* sort key of the last hit; when 30 s or more have passed since the last
\* write of the checkpoint file, the file holds that cursor too; and the file
\* is not written less than 30 s after its last write
C32_PersistedAfter30s ==
    [][pc = "idle" /\ pc' = "stamp" /\ logs' # <<>> =>
         LET hits == SearchHits(esLogs, last_sort_value)
         IN /\ last_sort_value' = hits[Len(hits)].sort
            /\ now' - last_save_time >= SaveSeconds =>
                  /\ checkpoint'.exists
                  /\ checkpoint'.last_sort_value = last_sort_value'
            /\ checkpoint' # checkpoint => now' - last_save_time >= SaveSeconds]_vars

----------------------------------------------------------------------------
\* Catalog in memory

\* C33: no step removes a template from the catalog in memory or moves one:
\* the template strings of the catalog before the step are the first template
\* strings of the catalog after it, in the same order
C33_CatalogOnlyGrows ==
    [][/\ Len(event_templates') >= Len(event_templates)
       /\ \A k \in DOMAIN event_templates :
             event_templates'[k].template = event_templates[k].template]_vars

\* The merge returned a list shorter than the catalog (it dropped a template of
\* the catalog), and the tick has gone through the catalog extension
C33_MergeDroppedTemplate ==
    /\ pc = "alert"
    /\ new_templates # <<>>
    /\ Len(new_templates) < Len(event_templates)

----------------------------------------------------------------------------
\* The API beside the scheduler: the log index holds unknown logs when the
\* process starts, ticks run on schedule or late, and the API rewrites the
\* alert configuration at any moment it can

InitApi ==
    /\ InitCommon
    /\ esLogs = <<LogDoc(1, Join(<<W_io, W_ok, W_db, W_aa>>)),
                  LogDoc(2, Join(<<W_io, W_ok, W_db, W_bb>>)),
                  LogDoc(3, W_zz)>>
    /\ mIn = NoHarness
    /\ event_templates = <<Event(34, Join(<<W_db, W_ok>>), FALSE)>>
    /\ esEvents = EventDocs(event_templates)
    /\ alertDoc = DefaultConfig
    /\ posts = [on |-> FALSE, log |-> <<>>, steady |-> TRUE, check |-> NoCheck]

NextApi ==
    \/ GetLogsLate
    \/ Stamp
    \/ Matcher
    \/ Clusterer
    \/ SaveLogs
    \/ Extend
    \/ AlertCheck
    \/ AlertUpdate
    \/ ApiPut

SpecApi == InitApi /\ [][NextApi]_vars

----------------------------------------------------------------------------
\* Writers of the cursor and the catalog

\* C34: a request of the API (a step that rewrites the alert configuration
\* while the tick stays where it is) leaves the checkpoint file, the cursor in
\* memory and the catalog as they are; the checkpoint file and the cursor
\* change only in the Reader step that starts a tick, the catalog only in the
\* Clusterer and in the catalog extension of a tick
C34_OnlySchedulerWrites ==
    /\ [][alertDoc' # alertDoc /\ pc' = pc =>
            UNCHANGED <<checkpoint, last_sort_value, last_save_time, event_templates>>]_vars
    /\ [][checkpoint' # checkpoint \/ last_sort_value' # last_sort_value =>
            pc = "idle" /\ now' > now /\ tick'.sent = last_sort_value]_vars
    /\ [][event_templates' # event_templates => pc \in {"cluster", "extend"}]_vars

\* The API has rewritten the alert configuration in a run in which ticks have
\* moved the cursor, written the checkpoint file and extended the catalog
C34_ApiBesideTicks ==
    /\ alertDoc.threshold # DefaultThreshold
    /\ checkpoint.exists
    /\ checkpoint.last_sort_value = last_sort_value
    /\ last_sort_value > 0
    /\ Len(event_templates) > 1

----------------------------------------------------------------------------
\* Answer of the webhook

\* C35: a POST that the webhook answers with a 2xx status is a successful
\* emission: the check goes on to set last_alert_time to its `now`.  The step
\* of a POST answered with `status` is the one whose record holds
\* PostSucceeded(status).
C35_Any2xxSucceeds ==
    [][pc = "alert" /\ Len(posts'.log) > Len(posts.log) =>
         \A status \in Statuses :
            /\ status \in 200..299
            /\ posts'.log[Len(posts'.log)].ok = PostSucceeded(status)
            => /\ posts'.log[Len(posts'.log)].ok
               /\ pc' = "update"
               /\ alertLocal' = now]_vars

----------------------------------------------------------------------------
\* Event ids given by the Clusterer and the live catalog

\* The positions of `logs` that the Clusterer gave an event id other than E0
ClusteredLogs ==
    {i \in Range(unknown_logs) : logs[i].event_id >= 1}

----------------------------------------------------------------------------
\* A tick that ends in run()'s except clause

\* One tick on a catalog and a batch of the harness, up to the write of the logs
NextAbort == Matcher \/ Clusterer \/ SaveLogs

SpecAbort == InitClusterer /\ [][NextAbort]_vars

\* C37: a tick that ends with an exception in or after the Clusterer step
\* leaves the in-memory catalog as it was before the tick: the same templates
\* in the same order with the same event ids
C37_AbortKeepsCatalog ==
    [][pc' = "idle" /\ pc \in {"cluster", "save_logs"} =>
          event_templates' = mIn.catalog]_vars

----------------------------------------------------------------------------
\* The checkpoint file when no more records arrive

\* The cursor in memory has moved past the one in the checkpoint file
CursorAhead ==
    last_sort_value # 0 /\ (~checkpoint.exists \/ checkpoint.last_sort_value # last_sort_value)

\* C38: when the cursor in memory is ahead of the checkpoint file and ticks keep
\* firing, the file comes to hold the cursor although no record arrives any
\* more: a tick whose search succeeds and finds nothing new, more than
\* SaveSeconds after the last write, leaves the file holding the cursor
C38_IdleTickFlushes ==
    [][/\ pc = "idle"
       /\ now' > now
       /\ ~tick'.failed
       /\ SearchHits(esLogs, last_sort_value) = <<>>
       /\ CursorAhead
       /\ now' - last_save_time > SaveSeconds
       => /\ checkpoint'.exists
          /\ checkpoint'.last_sort_value = last_sort_value']_vars

----------------------------------------------------------------------------
\* Start and end of the process (app/main.py, app/scheduler.py)

\* ElasticService.get_events: the lists of Event(event_id, template) that the
\* hits of the match_all search can give (the search has no sort: the hits come
\* in any order).  print(hits[0]) raises IndexError when there is no hit: no
\* list at all.
get_events(index) ==
    LET n == Cardinality(index)
        orders == {o \in [1..n -> index] : \A a \in 1..n, b \in 1..n : a # b => o[a] # o[b]}
    IN IF index = {} THEN {}
       ELSE {[k \in 1..n |-> Event(o[k].id, o[k].template, FALSE)] : o \in orders}

\* lifespan, line 13: AnomalyDetectionScheduler() builds the ElasticService
\* (cursor from checkpoint.json, last_save_time = time.time()) and reads the
\* catalog.  CheckpointManager.load answers None, as without file, when reading
\* the file raises.  An exception of get_events (the search failing, or no hit)
\* leaves lifespan before the job is added: the application does not start.
Bootstrap ==
    /\ pc = "down"
    /\ \E load_ok \in BOOLEAN :
          last_sort_value' = InitialCursor(IF load_ok THEN checkpoint ELSE Absent)
    /\ last_save_time' = now
    /\ \E search_ok \in BOOLEAN :
          IF search_ok /\ get_events(esEvents) # {}
          THEN /\ event_templates' \in get_events(esEvents)
               /\ pc' = "idle"
          ELSE /\ pc' = "failed"
               /\ UNCHANGED event_templates
    /\ tick' = NoTick
    /\ UNCHANGED <<now, checkpoint, esLogs, esEvents, logs, index_name, unknown_logs,
                   new_templates, alertDoc, alertLocal, posts, mIn, mOut, matched, timer>>

\* lifespan, lines 18-20, and the end of the process: the scheduler is shut
\* down between two ticks.  The variables of the process keep the last values
\* it held until the next start replaces them.
ProcessExit ==
    /\ pc = "idle"
    /\ pc' = "down"
    /\ UNCHANGED <<now, last_sort_value, last_save_time, checkpoint, esLogs, esEvents,
                   event_templates, logs, index_name, unknown_logs, new_templates,
                   alertDoc, alertLocal, posts, tick, mIn, mOut, matched, timer>>

\* The process started, stopped and started again over a templates index that
\* holds one template or none, while known logs arrive
InitBoot ==
    /\ now = 0
    /\ pc = "down"
    /\ checkpoint = Absent
    /\ last_sort_value = 0
    /\ last_save_time = 0
    /\ logs = <<>>
    /\ index_name = <<>>
    /\ unknown_logs = <<>>
    /\ new_templates = <<>>
    /\ alertLocal = NoneTime
    /\ tick = NoTick
    /\ mIn = NoHarness
    /\ mOut = <<>>
    /\ matched = {}
    /\ timer = TimerStarted
    /\ esLogs = <<>>
    /\ event_templates = <<>>
    /\ esEvents \in {{}, EventDocs(<<Event(34, Join(<<W_db, W_ok>>), FALSE)>>)}
    /\ alertDoc = DefaultConfig
    /\ posts = [on |-> FALSE, log |-> <<>>, steady |-> TRUE, check |-> NoCheck]

NextBoot ==
    \/ Bootstrap
    \/ ProcessExit
    \/ IngestKnown
    \/ GetLogsLate
    \/ Stamp
    \/ Matcher
    \/ Clusterer
    \/ SaveLogs
    \/ Extend
    \/ AlertCheck
    \/ AlertUpdate

SpecBoot == InitBoot /\ [][NextBoot]_vars

\* The checkpoint file holds no cursor, or one that is not ahead of the cursor
\* in memory
NotAhead(file, cursor) == file.exists => file.last_sort_value <= cursor

C40_BootsOnEmptyIndex ==
    [][pc = "down" /\ esEvents = {} /\ pc' # "down" =>
          /\ pc' = "idle"
          /\ event_templates' = <<>>]_vars

====
